---- MODULE Spec2Model ----
(***************************************************************************)
(* A model of the three card-asset scripts: the slicer (slice_cards.py),   *)
(* the verifier (verify_cards.py) and the pixel classification the slicer  *)
(* applies to every cell of the sprite sheet.                              *)
(*                                                                         *)
(* An image is a record [mode, w, h, data]: data is the row-major pixel    *)
(* sequence PIL's getdata() returns, a pixel is <<r,g,b>> in mode "RGB"    *)
(* and <<r,g,b,a>> in mode "RGBA".  The output directory is a function     *)
(* from the file names present to the image stored under each name.        *)
(***************************************************************************)
EXTENDS Integers, Sequences, FiniteSets, TLC

VARIABLES
    \* ---- slicer process (slice_cards.py) ----
    table,       \* the grid table in use: [rows, cols, map]
    sheet,       \* which sprite sheet is on disk (index into the sheets modelled)
    dir,         \* the output directory: file name -> stored image
    predir,      \* history: the directory as it was before the first run
    run,         \* "first" or "second" invocation of the slicer
    spc,         \* position of the slicer in slice_cards()
    crashed,     \* the slicer process has ended on an uncaught failure
    row, col,    \* loop variables of slice_cards()
    card,        \* the processed image of the current cell
    card_name,   \* CARD_MAP[row][col] of the current cell
    seen_cards,  \* slice_cards' local set
    card_count,  \* slice_cards' local counter
    writes,      \* history: the saves of this run, in order: [name, row, col, content]
    skipped,     \* console: names reported as "Skipped duplicate", in order
    summary,     \* console: the final counts printed by lines 161-163
    first,       \* history: the saves of the first complete run and what it left on disk
    \* ---- verifier process (verify_cards.py) ----
    vpc,         \* "idle" or "done"
    bug,         \* console: the bug-scenario block, lines 39-54
    checked,     \* the (card_id, filename) pairs the exhaustive loop computed
    missing,     \* main's local list
    report,      \* console: which branch of lines 71-76 printed
    samples,     \* console: the sample table, lines 83-88
    \* ---- background removal applied on its own ----
    img, out1, out2, ppc

slicerVars == <<table, sheet, dir, predir, run, spc, crashed, row, col, card,
                card_name, seen_cards, card_count, writes, skipped, summary, first>>
verifierVars == <<vpc, bug, checked, missing, report, samples>>
pixelVars == <<img, out1, out2, ppc>>
vars == <<slicerVars, verifierVars, pixelVars>>

(***************************************************************************)
(* Bounds of the model.                                                    *)
(***************************************************************************)
SmallCols == 2      \* columns of the two-row grid tables other than CARD_MAP
SampleW == 2        \* pixels sampled per row of a cropped cell
SampleH == 2        \* pixel rows sampled per cropped cell
PixelSpread == 1    \* channel values within this distance of a threshold
MaxMissing == 1     \* files absent from (or alone in) a verifier directory

(***************************************************************************)
(* Python helpers.                                                         *)
(***************************************************************************)
Abs(x) == IF x < 0 THEN -x ELSE x

\* list[i] for a Python list held as a 1-based sequence; a negative index
\* counts from the end.
PyIndex(list, i) == IF i < 0 THEN list[Len(list) + i + 1] ELSE list[i + 1]

Range(s) == {s[i] : i \in DOMAIN s}

Min(S) == CHOOSE x \in S : \A y \in S : x <= y
Max(S) == CHOOSE x \in S : \A y \in S : x >= y

(***************************************************************************)
(* verify_cards.py: the id -> filename mapping.                            *)
(***************************************************************************)
CARD_NAMES == <<"A", "2", "3", "4", "5", "6", "7", "8", "9", "10", "J", "Q", "K">>

\* faulty variant: hearts and diamonds in the wrong order
SUITS_swapped == <<"spades", "diamonds", "hearts", "clubs">>

SUITS == <<"spades", "hearts", "diamonds", "clubs">>

\* faulty variant: the id taken as 0-based
rank_index_offByOne(card_id) == card_id % 13

rank_index(card_id) == (card_id - 1) % 13

suit_index(card_id) == (card_id - 1) \div 13

card_id_to_filename(card_id) ==
    LET rank == PyIndex(CARD_NAMES, rank_index(card_id))
        suit == PyIndex(SUITS, suit_index(card_id))
    IN  rank \o "_" \o suit \o ".png"

(***************************************************************************)
(* slice_cards.py: images and background removal.                          *)
(***************************************************************************)
NoImage == [mode |-> "none", w |-> 0, h |-> 0, data |-> <<>>]

\* faulty variant: the image is flattened to RGB first, so every pixel comes
\* out opaque
ConvertRGBA_opaque(image) ==
    [image EXCEPT !.mode = "RGBA",
                  !.data = [i \in DOMAIN image.data |->
                              <<image.data[i][1], image.data[i][2],
                                image.data[i][3], 255>>]]

\* Image.convert("RGBA"): an RGB pixel gains alpha 255, an RGBA image is kept.
ConvertRGBA(image) ==
    [image EXCEPT !.mode = "RGBA",
                  !.data = [i \in DOMAIN image.data |->
                              IF Len(image.data[i]) = 3
                              THEN Append(image.data[i], 255)
                              ELSE image.data[i]]]

\* faulty variant: the red tolerance taken inclusively
is_green_inclusive(r, g, b) ==
    /\ Abs(r - 17) <= 40
    /\ Abs(g - 94) < 50
    /\ Abs(b - 63) < 40
    /\ g > r /\ g > b

is_green(r, g, b) ==
    /\ Abs(r - 17) < 40
    /\ Abs(g - 94) < 50
    /\ Abs(b - 63) < 40
    /\ g > r /\ g > b

is_dark_green(r, g, b) ==
    /\ g > r + 10
    /\ g > b + 5
    /\ r < 80
    /\ g < 180
    /\ b < 100

\* the body of the loop of lines 49-74, for one item of getdata()
RemovePixel(item) ==
    IF is_green(item[1], item[2], item[3]) \/ is_dark_green(item[1], item[2], item[3])
    THEN <<0, 0, 0, 0>>
    ELSE item

remove_green_background(image) ==
    LET rgba == ConvertRGBA(image)
    IN  [rgba EXCEPT !.data = [i \in DOMAIN rgba.data |-> RemovePixel(rgba.data[i])]]

\* Image.getbbox(): the box of the pixels that are not all-zero, or None.
\* (Every pixel remove_green_background produces from an RGB source is either
\* <<0,0,0,0>> or has alpha 255, so "some band non-zero" and "alpha non-zero"
\* pick the same pixels.)
PixelAt(image, x, y) == image.data[y * image.w + x + 1]

NonZero(p) == \E k \in DOMAIN p : p[k] # 0

getbbox(image) ==
    LET xs == {x \in 0..(image.w - 1) :
                 \E y \in 0..(image.h - 1) : NonZero(PixelAt(image, x, y))}
        ys == {y \in 0..(image.h - 1) :
                 \E x \in 0..(image.w - 1) : NonZero(PixelAt(image, x, y))}
    IN  IF xs = {} THEN <<>>
        ELSE <<Min(xs), Min(ys), Max(xs) + 1, Max(ys) + 1>>

\* Image.crop(box) of an image held in memory
crop(image, box) ==
    LET nw == box[3] - box[1]
        nh == box[4] - box[2]
    IN  [mode |-> image.mode, w |-> nw, h |-> nh,
         data |-> [i \in 1..(nw * nh) |->
                     PixelAt(image, box[1] + ((i - 1) % nw),
                                    box[2] + ((i - 1) \div nw))]]

crop_transparent_borders(image) ==
    LET bbox == getbbox(image)
    IN  IF bbox # <<>> THEN crop(image, bbox) ELSE image

(***************************************************************************)
(* slice_cards.py: configuration, geometry and the sprite sheet.           *)
(***************************************************************************)
ROWS == 6

\* faulty variant: the last column left out
COLS_short == 9 - 1

COLS == 9

\* faulty variant: the last cell names 2_hearts a second time
CARD_MAP_dup == <<
    <<"K_diamonds", "K_spades", "K_hearts", "K_clubs", "A_clubs", "7_diamonds", "7_spades", "7_hearts", "7_clubs">>,
    <<"Q_diamonds", "Q_spades", "Q_hearts", "Q_clubs", "A_hearts", "6_diamonds", "6_spades", "6_hearts", "6_clubs">>,
    <<"J_diamonds", "J_spades", "J_hearts", "J_clubs", "A_spades", "5_diamonds", "5_spades", "5_hearts", "5_clubs">>,
    <<"10_diamonds", "10_spades", "10_hearts", "10_clubs", "A_diamonds", "4_diamonds", "4_spades", "4_hearts", "4_clubs">>,
    <<"9_diamonds", "9_spades", "9_hearts", "9_clubs", "joker", "3_diamonds", "3_spades", "3_hearts", "3_clubs">>,
    <<"8_diamonds", "8_spades", "8_hearts", "8_clubs", "back", "2_diamonds", "2_spades", "2_hearts", "2_hearts">>
>>

CARD_MAP == <<
    <<"K_diamonds", "K_spades", "K_hearts", "K_clubs", "A_clubs", "7_diamonds", "7_spades", "7_hearts", "7_clubs">>,
    <<"Q_diamonds", "Q_spades", "Q_hearts", "Q_clubs", "A_hearts", "6_diamonds", "6_spades", "6_hearts", "6_clubs">>,
    <<"J_diamonds", "J_spades", "J_hearts", "J_clubs", "A_spades", "5_diamonds", "5_spades", "5_hearts", "5_clubs">>,
    <<"10_diamonds", "10_spades", "10_hearts", "10_clubs", "A_diamonds", "4_diamonds", "4_spades", "4_hearts", "4_clubs">>,
    <<"9_diamonds", "9_spades", "9_hearts", "9_clubs", "joker", "3_diamonds", "3_spades", "3_hearts", "3_clubs">>,
    <<"8_diamonds", "8_spades", "8_hearts", "8_clubs", "back", "2_diamonds", "2_spades", "2_hearts", "2_clubs">>
>>

FIRST_CARD_X == 72
FIRST_CARD_Y == 544
CARD_WIDTH == 428
CARD_HEIGHT == 576
H_GAP == 62
V_GAP == 84

\* lines 129-132: the rectangle (left, upper, right, lower) of a grid cell
CellBox(r, c) ==
    LET left == FIRST_CARD_X + c * (CARD_WIDTH + H_GAP)
        upper == FIRST_CARD_Y + r * (CARD_HEIGHT + V_GAP)
    IN  <<left, upper, left + CARD_WIDTH, upper + CARD_HEIGHT>>

\* The sprite sheets modelled: a green field (17, 94, 63) with card artwork
\* whose colours vary with the position; some grid slots are left empty.
Sheets == {1, 2}

SheetPixel(s, X, Y) ==
    LET empty == (((X - FIRST_CARD_X) \div (CARD_WIDTH + H_GAP))
                  + ((Y - FIRST_CARD_Y) \div (CARD_HEIGHT + V_GAP))) % 7 = s
        field == ((X \div 107) + (Y \div 144) + s) % 3 = 0
    IN  IF empty \/ field
        THEN <<17, 94, 63>>
        ELSE <<((X * s) \div 7) % 256, ((Y \div 5) + 20 * s) % 256, ((X + Y) \div 3) % 256>>

\* sprite_sheet.crop(box), line 135: the cell's pixels, sampled on a
\* SampleW x SampleH lattice of the rectangle.
SheetCrop(s, box) ==
    LET dx == (box[3] - box[1]) \div SampleW
        dy == (box[4] - box[2]) \div SampleH
    IN  [mode |-> "RGB", w |-> SampleW, h |-> SampleH,
         data |-> [i \in 1..(SampleW * SampleH) |->
                     SheetPixel(s, box[1] + ((i - 1) % SampleW) * dx,
                                   box[2] + ((i - 1) \div SampleW) * dy)]]

\* lines 129-141: what slice_cards holds in `card` for the cell (r, c)
ProcessedCell(s, r, c) ==
    crop_transparent_borders(remove_green_background(SheetCrop(s, CellBox(r, c))))

\* The grid tables the slicer is run over: the program's own, and every
\* two-row table of SmallCols columns over two card names.
SmallNames == {"A_spades", "7_hearts"}

Tables ==
    {[rows |-> ROWS, cols |-> COLS, map |-> CARD_MAP]}
    \cup {[rows |-> 2, cols |-> SmallCols, map |-> m] :
            m \in [1..2 -> [1..SmallCols -> SmallNames]]}

(***************************************************************************)
(* The output directory.                                                   *)
(***************************************************************************)
EmptyDir == [n \in {} |-> NoImage]

\* card.save(output_path): create or overwrite, no existing-file check
Store(d, name, content) ==
    [n \in (DOMAIN d) \cup {name} |-> IF n = name THEN content ELSE d[n]]

\* a file left by something else than the run at hand
StaleImage == [mode |-> "RGBA", w |-> 1, h |-> 1, data |-> << <<9, 9, 9, 255>> >>]

\* what an interrupted save leaves under the name: not a complete image
TruncatedFile == [mode |-> "truncated", w |-> 0, h |-> 0, data |-> <<>>]

\* the directory before the first run: empty, or holding files of an earlier
\* run that ended part-way and a file the slicer never names
PreDirs ==
    {EmptyDir,
     [n \in {"A_spades.png", "7_hearts.png", "K_clubs.png", "old.png"} |->
        IF n = "7_hearts.png" THEN TruncatedFile ELSE StaleImage]}

(***************************************************************************)
(* verify_cards.py: main().                                                *)
(***************************************************************************)
exists(d, filename) == filename \in DOMAIN d

\* lines 64-66: the (card_id, filename) pairs the loop goes through, in order
LoopItems == [card_id \in 1..52 |-> <<card_id, card_id_to_filename(card_id)>>]

\* faulty variant: the loop ends at the first missing file
ExhaustiveLoop_stopAtFirst(d) ==
    LET absent == SelectSeq(LoopItems, LAMBDA item : ~exists(d, item[2]))
    IN  [checked |-> IF absent = <<>> THEN LoopItems
                     ELSE SubSeq(LoopItems, 1, absent[1][1]),
         missing |-> IF absent = <<>> THEN <<>> ELSE <<absent[1]>>]

\* lines 63-69: the loop appends an item to `missing` when its file is absent,
\* and goes on to the next item either way
ExhaustiveLoop(d) ==
    [checked |-> LoopItems,
     missing |-> SelectSeq(LoopItems, LAMBDA item : ~exists(d, item[2]))]

test_cards == <<1, 7, 13, 14, 27, 33, 40, 52>>

NoBug == [file1 |-> "", exists1 |-> FALSE, file2 |-> "", exists2 |-> FALSE]
NoReport == [kind |-> "none", lines |-> <<>>]

VerifierIdle ==
    /\ vpc = "idle" /\ bug = NoBug /\ checked = <<>> /\ missing = <<>>
    /\ report = NoReport /\ samples = <<>>

\* one invocation of verify_cards.py, lines 28-88; it runs while the slicer
\* is not running
VerifierMain ==
    /\ vpc = "idle"
    /\ spc \in {"idle", "finished"} \/ crashed
    /\ LET file1 == card_id_to_filename(7)
           file2 == card_id_to_filename(33)
           loop == ExhaustiveLoop(dir)
       IN  /\ bug' = [file1 |-> file1, exists1 |-> exists(dir, file1),
                      file2 |-> file2, exists2 |-> exists(dir, file2)]
           /\ checked' = loop.checked
           /\ missing' = loop.missing
           /\ report' = IF loop.missing # <<>>
                        THEN [kind |-> "missing", lines |-> loop.missing]
                        ELSE [kind |-> "all present", lines |-> <<>>]
           /\ samples' = [k \in DOMAIN test_cards |->
                            <<test_cards[k], card_id_to_filename(test_cards[k]),
                              exists(dir, card_id_to_filename(test_cards[k]))>>]
    /\ vpc' = "done"
    /\ UNCHANGED <<slicerVars, pixelVars>>

(***************************************************************************)
(* slice_cards.py: slice_cards(), one action per step of the loop body.    *)
(***************************************************************************)
NoSummary == [sliced |-> -1, unique |-> -1]
NoFirst == [done |-> FALSE, writes |-> <<>>, dir |-> EmptyDir]

filename_of(name) == name \o ".png"

\* faulty variant: the grid walked column by column
NextCell_columnMajor ==
    IF row + 1 < table.rows
    THEN /\ row' = row + 1 /\ col' = col /\ spc' = "cell"
    ELSE IF col + 1 < table.cols
         THEN /\ row' = 0 /\ col' = col + 1 /\ spc' = "cell"
         ELSE /\ row' = row /\ col' = col /\ spc' = "summary"

\* the for loops of lines 126-127 move on to the next cell, or end
NextCell ==
    IF col + 1 < table.cols
    THEN /\ row' = row /\ col' = col + 1 /\ spc' = "cell"
    ELSE IF row + 1 < table.rows
         THEN /\ row' = row + 1 /\ col' = 0 /\ spc' = "cell"
         ELSE /\ row' = row /\ col' = col /\ spc' = "summary"

\* faulty variant: seen_cards kept from one invocation to the next
StartRun_keepsSeen ==
    /\ ~crashed
    /\ \/ spc = "idle" /\ run' = "first"
       \/ spc = "finished" /\ run = "first" /\ run' = "second"
    /\ card_count' = 0
    /\ seen_cards' = seen_cards
    /\ row' = 0 /\ col' = 0
    /\ spc' = "cell"
    /\ card' = NoImage /\ card_name' = ""
    /\ writes' = <<>> /\ skipped' = <<>> /\ summary' = NoSummary
    /\ vpc' = "idle" /\ bug' = NoBug /\ checked' = <<>> /\ missing' = <<>>
    /\ report' = NoReport /\ samples' = <<>>
    /\ UNCHANGED <<table, sheet, dir, predir, crashed, first, pixelVars>>

\* lines 95-123: a new invocation; the first one, or a second one after the
\* first has completed.  The verifier's report of an earlier directory is
\* gone from the screen.
StartRun ==
    /\ ~crashed
    /\ \/ spc = "idle" /\ run' = "first"
       \/ spc = "finished" /\ run = "first" /\ run' = "second"
    /\ card_count' = 0
    /\ seen_cards' = {}
    /\ row' = 0 /\ col' = 0
    /\ spc' = "cell"
    /\ card' = NoImage /\ card_name' = ""
    /\ writes' = <<>> /\ skipped' = <<>> /\ summary' = NoSummary
    /\ vpc' = "idle" /\ bug' = NoBug /\ checked' = <<>> /\ missing' = <<>>
    /\ report' = NoReport /\ samples' = <<>>
    /\ UNCHANGED <<table, sheet, dir, predir, crashed, first, pixelVars>>

\* lines 129-144
ProcessCell ==
    /\ ~crashed
    /\ spc = "cell"
    /\ card' = ProcessedCell(sheet, row, col)
    /\ card_name' = PyIndex(PyIndex(table.map, row), col)
    /\ spc' = "dedup"
    /\ UNCHANGED <<table, sheet, dir, predir, run, crashed, row, col, seen_cards,
                   card_count, writes, skipped, summary, first, verifierVars,
                   pixelVars>>

\* lines 147-149
SkipDuplicate ==
    /\ ~crashed
    /\ spc = "dedup"
    /\ card_name \in seen_cards
    /\ skipped' = Append(skipped, card_name)
    /\ NextCell
    /\ UNCHANGED <<table, sheet, dir, predir, run, crashed, card, card_name,
                   seen_cards, card_count, writes, summary, first, verifierVars,
                   pixelVars>>

\* faulty variant: the name is not added to seen_cards
MarkSeen_forgetsAdd ==
    /\ ~crashed
    /\ spc = "dedup"
    /\ card_name \notin seen_cards
    /\ seen_cards' = seen_cards
    /\ spc' = "save"
    /\ UNCHANGED <<table, sheet, dir, predir, run, crashed, row, col, card,
                   card_name, card_count, writes, skipped, summary, first,
                   verifierVars, pixelVars>>

\* lines 147, 151-152
MarkSeen ==
    /\ ~crashed
    /\ spc = "dedup"
    /\ card_name \notin seen_cards
    /\ seen_cards' = seen_cards \cup {card_name}
    /\ spc' = "save"
    /\ UNCHANGED <<table, sheet, dir, predir, run, crashed, row, col, card,
                   card_name, card_count, writes, skipped, summary, first,
                   verifierVars, pixelVars>>

\* lines 155-156
SaveCard ==
    /\ ~crashed
    /\ spc = "save"
    /\ dir' = Store(dir, filename_of(card_name), card)
    /\ writes' = Append(writes, [name |-> filename_of(card_name), row |-> row,
                                 col |-> col, content |-> card])
    /\ spc' = "count"
    /\ UNCHANGED <<table, sheet, predir, run, crashed, row, col, card, card_name,
                   seen_cards, card_count, skipped, summary, first, verifierVars,
                   pixelVars>>

\* line 156 failing part-way (disk full, process killed): the file is there,
\* incomplete, and the script ends
SaveInterrupted ==
    /\ ~crashed
    /\ spc = "save"
    /\ dir' = Store(dir, filename_of(card_name), TruncatedFile)
    /\ writes' = Append(writes, [name |-> filename_of(card_name), row |-> row,
                                 col |-> col, content |-> TruncatedFile])
    /\ crashed' = TRUE
    /\ UNCHANGED <<table, sheet, predir, run, spc, row, col, card, card_name,
                   seen_cards, card_count, skipped, summary, first, verifierVars,
                   pixelVars>>

\* lines 157-158
CountCard ==
    /\ ~crashed
    /\ spc = "count"
    /\ card_count' = card_count + 1
    /\ NextCell
    /\ UNCHANGED <<table, sheet, dir, predir, run, crashed, card, card_name,
                   seen_cards, writes, skipped, summary, first, verifierVars,
                   pixelVars>>

\* lines 160-170
Summary ==
    /\ ~crashed
    /\ spc = "summary"
    /\ summary' = [sliced |-> card_count, unique |-> Cardinality(seen_cards)]
    /\ first' = IF run = "first"
                THEN [done |-> TRUE, writes |-> writes, dir |-> dir]
                ELSE first
    /\ spc' = "finished"
    /\ UNCHANGED <<table, sheet, dir, predir, run, crashed, row, col, card,
                   card_name, seen_cards, card_count, writes, skipped, verifierVars,
                   pixelVars>>

\* an uncaught failure or an interrupt between two steps: the script ends
\* where it is, nothing is rolled back
Crash ==
    /\ ~crashed
    /\ spc \in {"cell", "dedup", "save", "count", "summary"}
    /\ crashed' = TRUE
    /\ UNCHANGED <<table, sheet, dir, predir, run, spc, row, col, card, card_name,
                   seen_cards, card_count, writes, skipped, summary, first,
                   verifierVars, pixelVars>>

(***************************************************************************)
(* The slicer and the verifier, run one after the other.                   *)
(***************************************************************************)
PixelOff == img = NoImage /\ out1 = NoImage /\ out2 = NoImage /\ ppc = "off"

Init ==
    /\ table \in Tables
    /\ sheet \in Sheets
    /\ dir \in PreDirs
    /\ predir = dir
    /\ run = "first" /\ spc = "idle" /\ crashed = FALSE
    /\ row = 0 /\ col = 0
    /\ card = NoImage /\ card_name = ""
    /\ seen_cards = {} /\ card_count = 0
    /\ writes = <<>> /\ skipped = <<>> /\ summary = NoSummary /\ first = NoFirst
    /\ VerifierIdle
    /\ PixelOff

Next ==
    \/ StartRun
    \/ ProcessCell
    \/ SkipDuplicate
    \/ MarkSeen
    \/ SaveCard
    \/ SaveInterrupted
    \/ CountCard
    \/ Summary
    \/ Crash
    \/ VerifierMain

Spec == Init /\ [][Next]_vars

(***************************************************************************)
(* The verifier run against a directory of any contents.                   *)
(***************************************************************************)
RankNames == {"A", "2", "3", "4", "5", "6", "7", "8", "9", "10", "J", "Q", "K"}
SuitNames == {"spades", "hearts", "diamonds", "clubs"}

\* the 52 names "<rank>_<suit>.png"
CardFileNames == {r \o "_" \o s \o ".png" : r \in RankNames, s \in SuitNames}

ExtraFileNames == {"joker.png", "back.png"}

RECURSIVE SubsetsUpTo(_, _)
SubsetsUpTo(S, k) ==
    IF k = 0 THEN {{}}
    ELSE LET smaller == SubsetsUpTo(S, k - 1)
         IN  smaller \cup {T \cup {x} : T \in smaller, x \in S}

\* every card file but a few, or only a few card files, with or without the
\* two extra files
VerifierDirs ==
    {[n \in names |-> StaleImage] :
        names \in {(CardFileNames \ T) \cup E :
                      T \in SubsetsUpTo(CardFileNames, MaxMissing),
                      E \in {{}, ExtraFileNames}}
                  \cup {T \cup E :
                      T \in SubsetsUpTo(CardFileNames, MaxMissing),
                      E \in {{}, ExtraFileNames}}}

InitVerify ==
    /\ table = [rows |-> ROWS, cols |-> COLS, map |-> CARD_MAP]
    /\ sheet = 1
    /\ dir \in VerifierDirs
    /\ predir = dir
    /\ run = "first" /\ spc = "idle" /\ crashed = FALSE
    /\ row = 0 /\ col = 0
    /\ card = NoImage /\ card_name = ""
    /\ seen_cards = {} /\ card_count = 0
    /\ writes = <<>> /\ skipped = <<>> /\ summary = NoSummary /\ first = NoFirst
    /\ VerifierIdle
    /\ PixelOff

NextVerify == VerifierMain

SpecVerify == InitVerify /\ [][NextVerify]_vars

(***************************************************************************)
(* remove_green_background applied to an image, and again to its result.   *)
(***************************************************************************)
\* channel values at the thresholds of lines 55-58 and 63-67, and next to them
REdges == {0, 17, 17 + 40, 80, 255}
GEdges == {0, 17 + 10, 94 - 50, 17 + 40, 63 + 5, 94, 94 + 50, 180, 255}
BEdges == {0, 63 - 40, 63, 94, 100, 63 + 40, 255}

Near(edges) == {v \in 0..255 : \E e \in edges : Abs(v - e) <= PixelSpread}

ProbePixels == {<<r, g, b>> : r \in Near(REdges), g \in Near(GEdges), b \in Near(BEdges)}

OnePixel(mode, p) == [mode |-> mode, w |-> 1, h |-> 1, data |-> <<p>>]

\* one-pixel RGB images over the probe pixels, one-pixel RGBA images of any
\* opacity, and the cells of the sheets
ProbeImages ==
    {OnePixel("RGB", p) : p \in ProbePixels}
    \cup {OnePixel("RGBA", <<c[1], c[2], c[3], a>>) :
            c \in {<<0, 0, 0>>, <<17, 94, 63>>, <<70, 170, 90>>, <<255, 255, 255>>},
            a \in {0, 128, 255}}
    \cup {SheetCrop(s, CellBox(r, c)) : s \in Sheets, r \in 0..1, c \in 0..1}

InitPixel ==
    /\ img \in ProbeImages
    /\ out1 = NoImage /\ out2 = NoImage
    /\ ppc = "start"
    /\ table = [rows |-> ROWS, cols |-> COLS, map |-> CARD_MAP]
    /\ sheet = 1
    /\ dir = EmptyDir
    /\ predir = dir
    /\ run = "first" /\ spc = "off" /\ crashed = FALSE
    /\ row = 0 /\ col = 0
    /\ card = NoImage /\ card_name = ""
    /\ seen_cards = {} /\ card_count = 0
    /\ writes = <<>> /\ skipped = <<>> /\ summary = NoSummary /\ first = NoFirst
    /\ VerifierIdle

ApplyOnce ==
    /\ ppc = "start"
    /\ out1' = remove_green_background(img)
    /\ ppc' = "once"
    /\ UNCHANGED <<img, out2, slicerVars, verifierVars>>

ApplyTwice ==
    /\ ppc = "once"
    /\ out2' = remove_green_background(out1)
    /\ ppc' = "twice"
    /\ UNCHANGED <<img, out1, slicerVars, verifierVars>>

NextPixel ==
    \/ ApplyOnce
    \/ ApplyTwice

SpecPixel == InitPixel /\ [][NextPixel]_vars

(***************************************************************************)
(* Properties of the verifier.                                             *)
(***************************************************************************)
RankOrder == <<"A", "2", "3", "4", "5", "6", "7", "8", "9", "10", "J", "Q", "K">>
SuitOrder == <<"spades", "hearts", "diamonds", "clubs">>

\* the documented mapping: rank (id-1) mod 13, suit (id-1) div 13
ReferenceName(id) ==
    RankOrder[((id - 1) % 13) + 1] \o "_" \o SuitOrder[((id - 1) \div 13) + 1] \o ".png"

\* the names the verifier's loop computed, by id
NameOf(id) == checked[id][2]

\* C1: over ids 1..52 the filenames the verifier computes are pairwise
\* different and are exactly the 52 names "<rank>_<suit>.png"; id 1 gives
\* "A_spades.png", id 13 "K_spades.png", id 14 "A_hearts.png" and id 52
\* "K_clubs.png".
C1_Bijection ==
    vpc = "done" =>
        /\ Len(checked) = 52
        /\ \A id \in 1..52 : checked[id][1] = id
        /\ \A i, j \in 1..52 : i # j => NameOf(i) # NameOf(j)
        /\ {NameOf(id) : id \in 1..52} = CardFileNames
        /\ NameOf(1) = "A_spades.png"
        /\ NameOf(13) = "K_spades.png"
        /\ NameOf(14) = "A_hearts.png"
        /\ NameOf(52) = "K_clubs.png"

C1_Witness ==
    /\ vpc = "done"
    /\ Len(checked) = 52
    /\ NameOf(52) = "K_clubs.png"
    /\ Cardinality({NameOf(id) : id \in 1..52}) = 52

\* C2: for every id in 1..52 the filename is the reference mapping's (rank
\* (id-1) mod 13 in the order A..K, suit (id-1) div 13 in the order spades,
\* hearts, diamonds, clubs), so ids 1-13 are spades, 14-26 hearts, 27-39
\* diamonds and 40-52 clubs, each A through K; both indices stay inside their
\* tables; id 7 gives "7_spades.png" and id 33 gives "7_diamonds.png".
C2_ReferenceMapping ==
    vpc = "done" =>
        /\ \A id \in 1..52 :
              /\ NameOf(id) = ReferenceName(id)
              /\ rank_index(id) \in 0..12
              /\ suit_index(id) \in 0..3
              /\ rank_index(id) + 1 \in DOMAIN CARD_NAMES
              /\ suit_index(id) + 1 \in DOMAIN SUITS
        /\ \A k \in 1..13 :
              /\ NameOf(k) = RankOrder[k] \o "_spades.png"
              /\ NameOf(13 + k) = RankOrder[k] \o "_hearts.png"
              /\ NameOf(26 + k) = RankOrder[k] \o "_diamonds.png"
              /\ NameOf(39 + k) = RankOrder[k] \o "_clubs.png"
        /\ bug.file1 = "7_spades.png"
        /\ bug.file2 = "7_diamonds.png"
        /\ NameOf(7) = "7_spades.png"
        /\ NameOf(33) = "7_diamonds.png"

C2_Witness ==
    /\ vpc = "done"
    /\ bug.file1 = "7_spades.png"
    /\ bug.file2 = "7_diamonds.png"
    /\ samples[6] = <<33, "7_diamonds.png", exists(dir, "7_diamonds.png")>>

\* the ids in 1..52 whose file (by the documented mapping) is not in d
AbsentIds(d) == {id \in 1..52 : ReferenceName(id) \notin DOMAIN d}

\* C5: whatever the directory holds, the exhaustive check goes through all
\* ids 1..52, its missing list is exactly the (id, filename) pairs whose file
\* is absent, in ascending id order, and it reports full success iff the list
\* is empty; with every card file there but "2_clubs.png" it lists exactly
\* one entry, the id of "2_clubs.png".
C5_MissingList ==
    vpc = "done" =>
        /\ Len(checked) = 52
        /\ \A id \in 1..52 : checked[id][1] = id
        /\ \A k \in DOMAIN missing :
              /\ missing[k][1] \in AbsentIds(dir)
              /\ missing[k][2] = ReferenceName(missing[k][1])
        /\ \A id \in AbsentIds(dir) : \E k \in DOMAIN missing : missing[k][1] = id
        /\ \A k, l \in DOMAIN missing : k < l => missing[k][1] < missing[l][1]
        /\ (report.kind = "all present") <=> (missing = <<>>)
        /\ (report.kind = "missing") <=> (missing # <<>>)
        /\ report.lines = missing
        /\ (CardFileNames \ DOMAIN dir = {"2_clubs.png"})
              => missing = << <<41, "2_clubs.png">> >>

C5_Witness ==
    /\ vpc = "done"
    /\ CardFileNames \ DOMAIN dir = {"2_clubs.png"}
    /\ Len(missing) = 1
    /\ report.kind = "missing"

(***************************************************************************)
(* Properties of the slicer.                                               *)
(***************************************************************************)
NumCells == table.rows * table.cols

\* the name the table gives the k-th cell in row-major order, k from 0
CellName(k) == table.map[(k \div table.cols) + 1][(k % table.cols) + 1]

CellImage(k) == ProcessedCell(sheet, k \div table.cols, k % table.cols)

\* no earlier cell in row-major order has the k-th cell's name
FirstOccurrence(k) == \A j \in 0..(k - 1) : CellName(j) # CellName(k)

\* the cells this run has left behind, and the cell it is at
Handled ==
    IF spc \in {"summary", "finished"} THEN NumCells ELSE row * table.cols + col

InRun == spc \in {"cell", "dedup", "save", "count", "summary", "finished"}

Written == {writes[i].name : i \in DOMAIN writes}

\* the file names of the first n cells in row-major order
PrefixFiles(n) == {CellName(k) \o ".png" : k \in 0..(n - 1)}

FullTable == table.map = CARD_MAP /\ table.rows = ROWS /\ table.cols = COLS

\* C3: after one complete run over the full CARD_MAP from an empty directory
\* the files written are exactly the 52 names "<rank>_<suit>.png" plus
\* "joker.png" and "back.png"; every card_id_to_filename(id), id in 1..52, is
\* present, and the verifier's exhaustive check reports no missing card.
C3_CompleteRun ==
    (FullTable /\ predir = EmptyDir /\ run = "first" /\ spc = "finished") =>
        /\ Written = CardFileNames \cup ExtraFileNames
        /\ DOMAIN dir = CardFileNames \cup ExtraFileNames
        /\ \A id \in 1..52 : exists(dir, card_id_to_filename(id))
        /\ vpc = "done" =>
              /\ missing = <<>>
              /\ report.kind = "all present"
              /\ Len(checked) = 52

C3_Witness ==
    /\ FullTable /\ predir = EmptyDir /\ run = "first" /\ spc = "finished"
    /\ vpc = "done"
    /\ Cardinality(DOMAIN dir) = 54
    /\ report.kind = "all present"

\* the names of the cells before the n-th that repeat an earlier cell's name
SkipsBefore(n) ==
    LET repeats == SelectSeq([k \in 1..n |-> k - 1], LAMBDA k : ~FirstOccurrence(k))
    IN  [i \in DOMAIN repeats |-> CellName(repeats[i])]

\* C4: in one run over any grid table each name is written at most once: the
\* cell saved under a name is the first one in row-major order with that
\* name, every later cell with the name is reported as a skipped duplicate
\* and writes nothing, and the content stored under the name stays the first
\* cell's.
C4_FirstOccurrenceWins ==
    InRun =>
        /\ \A i, j \in DOMAIN writes : i # j => writes[i].name # writes[j].name
        /\ \A i \in DOMAIN writes :
              LET k == writes[i].row * table.cols + writes[i].col
              IN  /\ writes[i].name = CellName(k) \o ".png"
                  /\ FirstOccurrence(k)
                  /\ writes[i].name \in DOMAIN dir
                  /\ dir[writes[i].name] = writes[i].content
                  /\ \/ writes[i].content = CellImage(k)
                     \/ /\ crashed /\ spc = "save" /\ i = Len(writes)
                        /\ writes[i].content = TruncatedFile
        /\ skipped = SkipsBefore(Handled)
        /\ Len(writes) + Len(skipped) \in {Handled, Handled + 1}

C4_Witness ==
    /\ spc = "finished"
    /\ ~FullTable
    /\ skipped # <<>>
    /\ \E k \in 0..(NumCells - 1) :
          /\ ~FirstOccurrence(k)
          /\ dir[CellName(k) \o ".png"] # CellImage(k)
          /\ dir[CellName(k) \o ".png"] # TruncatedFile

\* C6: a second complete run on the same sheet and table saves the same
\* names with the same content, in the same order, as the first; it rewrites
\* every file of the first run whether or not it is already there, and leaves
\* the directory as the first run left it.
C6_SecondRunSame ==
    (run = "second" /\ spc = "finished") =>
        /\ first.done
        /\ writes = first.writes
        /\ dir = first.dir
        /\ \A i \in DOMAIN first.writes : first.writes[i].name \in Written
        /\ summary.sliced = Len(first.writes)

C6_Witness ==
    /\ run = "second" /\ spc = "finished"
    /\ predir # EmptyDir
    /\ Len(writes) >= 2
    /\ \E n \in DOMAIN predir : n \in Written /\ predir[n] = TruncatedFile
    /\ \A i \in DOMAIN writes : dir[writes[i].name] = writes[i].content

\* the aces and the sevens
AcesAndSevens ==
    {r \o "_" \o s : r \in {"A", "7"}, s \in SuitNames}

\* how many cells of CARD_MAP hold the name
Occurrences(name) ==
    Cardinality({rc \in (1..ROWS) \X (1..COLS) : CARD_MAP[rc[1]][rc[2]] = name})

\* C8 as stated: CARD_MAP holds duplicate entries, so a complete run over it
\* takes the duplicate-skip branch at least once and writes fewer than 54
\* files.
C8_AsStated ==
    (FullTable /\ spc = "finished") =>
        /\ Len(skipped) >= 1
        /\ card_count < ROWS * COLS

\* C8, amended: the 54 cells of CARD_MAP hold 54 different names (each ace
\* and each 7 is in exactly one cell), so a complete run over it never takes
\* the duplicate-skip branch and writes 54 files, one per cell.
C8_NoDuplicates ==
    (FullTable /\ InRun) =>
        /\ skipped = <<>>
        /\ \A name \in AcesAndSevens : Occurrences(name) = 1
        /\ spc = "finished" =>
              /\ card_count = ROWS * COLS
              /\ Len(writes) = ROWS * COLS
              /\ summary = [sliced |-> 54, unique |-> 54]

C8_Witness ==
    /\ FullTable /\ spc = "finished"
    /\ skipped = <<>>
    /\ card_count = 54

\* the cell at hand has been saved (in full or in part) and not yet counted
SavedNotCounted ==
    \/ spc = "count"
    \/ /\ spc = "save" /\ crashed
       /\ writes # <<>>
       /\ writes[Len(writes)].row = row /\ writes[Len(writes)].col = col

\* the parts of C9 that do not speak of card_count
C9_Prefix ==
    /\ \E n \in {Handled, Handled + 1} : n <= NumCells /\ Written = PrefixFiles(n)
    /\ Written = PrefixFiles(Handled)
          \/ Written \ {CellName(Handled) \o ".png"} = PrefixFiles(Handled)
    /\ \A i \in DOMAIN writes :
          /\ \E name \in seen_cards : writes[i].name = name \o ".png"
          /\ writes[i].name \in DOMAIN dir
          /\ dir[writes[i].name] = writes[i].content
    /\ \A i, j \in DOMAIN writes :
          i < j => writes[i].row * table.cols + writes[i].col
                     < writes[j].row * table.cols + writes[j].col

\* C9 as stated: at every point of a run the files written are the names of
\* a prefix of the row-major cell sequence (possibly without the cell at
\* hand), card_count equals the number of files written, every written name
\* is in seen_cards and no file written earlier has been removed or altered.
C9_AsStated ==
    InRun => (C9_Prefix /\ card_count = Cardinality(Written))

\* C9, amended: as stated, except that card_count equals the number of files
\* written only up to the save of a cell: from the save of line 156 (complete
\* or interrupted) until the increment of line 157 it is one less.
C9_PrefixAndCount ==
    InRun =>
        /\ C9_Prefix
        /\ card_count = Cardinality(Written) - (IF SavedNotCounted THEN 1 ELSE 0)
        /\ (spc \in {"summary", "finished"}) => card_count = Cardinality(Written)

C9_Witness ==
    /\ spc = "count" /\ crashed
    /\ row = 1 /\ col = 0
    /\ card_count = Cardinality(Written) - 1
    /\ card_count >= 1

(***************************************************************************)
(* Properties of the background removal.                                   *)
(***************************************************************************)
Transparent == <<0, 0, 0, 0>>

\* the two rules, as documented
PrimaryRule(p) ==
    /\ p[1] - 17 < 40 /\ 17 - p[1] < 40
    /\ p[2] - 94 < 50 /\ 94 - p[2] < 50
    /\ p[3] - 63 < 40 /\ 63 - p[3] < 40
    /\ p[2] > p[1] /\ p[2] > p[3]

SecondaryRule(p) ==
    /\ p[2] > p[1] + 10
    /\ p[2] > p[3] + 5
    /\ p[1] < 80 /\ p[2] < 180 /\ p[3] < 100

\* what the code's two tests say of a pixel
ClassifiedBackground(p) == is_green(p[1], p[2], p[3]) \/ is_dark_green(p[1], p[2], p[3])

\* C7: background removal is idempotent: the transparent pixel it emits is
\* not classified as background and passes through unchanged, every pixel
\* that passed through unchanged is again not classified as background, and
\* the second application gives the same image as the first.
C7_Idempotent ==
    /\ ppc \in {"once", "twice"} =>
          /\ out1.mode = "RGBA"
          /\ Len(out1.data) = Len(img.data)
          /\ \A i \in DOMAIN out1.data :
                /\ ~ClassifiedBackground(out1.data[i])
                /\ RemovePixel(out1.data[i]) = out1.data[i]
    /\ ppc = "twice" => out2 = out1

C7_Witness ==
    /\ ppc = "twice"
    /\ out2 = out1
    /\ Len(img.data) > 1
    /\ \E i \in DOMAIN out1.data :
          out1.data[i] = Transparent /\ img.data[i] # Transparent
    /\ \E i \in DOMAIN out1.data : out1.data[i] # Transparent

\* C10: an RGB pixel comes out fully transparent iff it matches the primary
\* rule or the secondary rule, and otherwise keeps its channels (with the
\* alpha the conversion gave it); the rules overlap and neither contains the
\* other.
C10_Classification ==
    /\ (ppc \in {"once", "twice"} /\ img.mode = "RGB") =>
          \A i \in DOMAIN img.data :
              LET p == img.data[i]
              IN  /\ (out1.data[i] = Transparent)
                        <=> (PrimaryRule(p) \/ SecondaryRule(p))
                  /\ ~(PrimaryRule(p) \/ SecondaryRule(p))
                        => out1.data[i] = <<p[1], p[2], p[3], 255>>
    /\ (ppc \in {"once", "twice"} /\ img.mode = "RGBA") =>
          \A i \in DOMAIN img.data :
              out1.data[i] = IF PrimaryRule(img.data[i]) \/ SecondaryRule(img.data[i])
                             THEN Transparent ELSE img.data[i]
    /\ is_green(17, 94, 93) /\ ~is_dark_green(17, 94, 93)
    /\ is_dark_green(0, 179, 0) /\ ~is_green(0, 179, 0)
    /\ is_green(17, 94, 63) /\ is_dark_green(17, 94, 63)

\* a pixel only the primary rule matches has been made transparent
C10_Witness ==
    /\ ppc = "once"
    /\ img.mode = "RGB"
    /\ Len(img.data) = 1
    /\ PrimaryRule(img.data[1]) /\ ~SecondaryRule(img.data[1])
    /\ out1.data[1] = Transparent

====
